---- MODULE Spec2Model ----
(***************************************************************************)
(* Model of bifrost's server/appstate.rs: AppState::from_config (the       *)
(* certificate step followed by the versioned state load), the shared     *)
(* Arc<Mutex<Resources>> behind every clone of AppState, and the derived   *)
(* read-only views.                                                        *)
(***************************************************************************)
EXTENDS Integers, Sequences, FiniteSets, TLC

VARIABLES
    files,      \* the file system: path -> [bytes, readable]; a path outside DOMAIN is absent
    config,     \* AppConfig of the running process: [mac, cert_file, state_file]
    run,        \* number of process starts so far
    pc,         \* position inside from_config, or "returned"
    fd,         \* the open state file (bytes still to be read), local of from_config
    yaml,       \* the deserialized document, local of from_config
    res,        \* the Resources value, local of from_config
    result,     \* what from_config returned: "pending", "Ok" or "Err"
    handles,    \* every live AppState value (the original and its clones)
    mutexes,    \* every tokio Mutex<Resources> allocated: [data, holder, waiters]
    tasks,      \* callers of the Handle: [pc, h, local, failed, waited]
    short,      \* the last ApiShortConfig returned by api_short_config
    ops,        \* history: the calls from_config made in this run, in order
    failedAt,   \* history: the call of from_config that returned an error
    disk0,      \* history: the file system when this run started
    certWrites, \* history: how often this run wrote the certificate file
    prev,       \* history: the previous run: [mac, cert_ok, wrote, migrated, result]
    tls         \* the caller of tls_config: [pc, path, cert, out, last, held]

vars == <<files, config, run, pc, fd, yaml, res, result, handles, mutexes,
          tasks, short, ops, failedAt, disk0, certWrites, prev, tls>>

bootVars == <<files, config, run, pc, fd, yaml, res, result, ops, failedAt, disk0,
              certWrites, prev>>

-----------------------------------------------------------------------------
(* Bounds *)

MaxRuns == 2
NumTasks == 2
MaxClones == 1

-----------------------------------------------------------------------------
(* Values *)

None == [tag |-> "none"]
Some(v) == [tag |-> "some", val |-> v]

\* Hardware identifiers (config.bridge.mac), six bytes each.
Macs == { <<170, 187, 204, 221, 238, 255>>, <<0, 17, 34, 51, 68, 86>> }

HexDigits == <<"0", "1", "2", "3", "4", "5", "6", "7",
               "8", "9", "A", "B", "C", "D", "E", "F">>

HexByte(b) == HexDigits[(b \div 16) + 1] \o HexDigits[(b % 16) + 1]

\* certificate::hue_bridge_id: the 16-hex-character bridge id of a mac.
hue_bridge_id(mac) ==
    HexByte(mac[1]) \o HexByte(mac[2]) \o HexByte(mac[3]) \o "FFFE" \o
    HexByte(mac[4]) \o HexByte(mac[5]) \o HexByte(mac[6])

\* Paths are file names split at the dots: state.yaml is <<"state", "yaml">>.
CertFile == <<"cert", "pem">>
StateFiles == { <<"state", "yaml">>, <<"state">>, <<"state", "v1", "yaml">> }

\* Utf8Path::with_extension: the extension (the part after the last dot, when
\* the name has a stem before it) is replaced by ext.
HasExtension(p) == Len(p) > 2 \/ (Len(p) = 2 /\ p[1] # "")
with_extension(p, ext) ==
    (IF HasExtension(p) THEN SubSeq(p, 1, Len(p) - 1) ELSE p) \o ext

V0Bak == <<"v0", "bak">>

\* Certificate file contents: a combined PEM whose subject carries an identity.
CertBytes(id) == << <<"CN", id>> >>
BadPem == << <<"!">> >>

\* State documents, as lines of <<key, value>>.
DocV0 == << <<"lights", "a">> >>
DocV0Bad == << <<"lights", "?">> >>
DocV1 == << <<"version", "1">>, <<"lights", "b">> >>
DocV1Bad == << <<"version", "1">>, <<"lights", "?">> >>
DocV9 == << <<"version", "9">> >>
DocGarbage == << <<"lights", "a">>, <<"!">> >>
DocOld == << <<"lights", "old">> >>

Docs == {DocV0, DocV0Bad, DocV1, DocV1Bad, DocV9, DocGarbage}

File(bytes, readable) == [bytes |-> bytes, readable |-> readable]

is_file(fs, p) == p \in DOMAIN fs

Put(fs, p, f) == [q \in DOMAIN fs \cup {p} |-> IF q = p THEN f ELSE fs[q]]
\* fs::rename: the file moves, replacing whatever was at the target.
Rename(fs, from, to) ==
    [q \in (DOMAIN fs \ {from}) \cup {to} |-> IF q = to THEN fs[from] ELSE fs[q]]

-----------------------------------------------------------------------------
(* Collaborators: certificate, serde_yml, State, Resources *)

\* The identity embedded in a certificate file, None when the PEM is malformed.
CertIdentity(bytes) ==
    IF Len(bytes) = 1 /\ Len(bytes[1]) = 2 /\ bytes[1][1] = "CN"
    THEN Some(bytes[1][2]) ELSE None

\* serde_yml::from_reader: a mapping of the keys, None when a line is malformed.
WellFormed(bytes) == \A i \in 1..Len(bytes) : Len(bytes[i]) = 2
Keys(bytes) == { bytes[i][1] : i \in 1..Len(bytes) }
LastLine(bytes, k) ==
    CHOOSE i \in 1..Len(bytes) :
        /\ bytes[i][1] = k
        /\ \A j \in 1..Len(bytes) : bytes[j][1] = k => j <= i
from_reader(bytes) ==
    IF WellFormed(bytes)
    THEN Some([k \in Keys(bytes) |-> bytes[LastLine(bytes, k)][2]])
    ELSE None

\* State::version: V0 documents carry no version field.
version(y) ==
    IF "version" \notin DOMAIN y THEN Some("V0")
    ELSE IF y["version"] = "1" THEN Some("V1")
    ELSE None

\* State::from_v1: deserialize the current representation.
from_v1(y) ==
    IF "lights" \in DOMAIN y /\ y["lights"] = "?" THEN None
    ELSE Some([version |-> "1",
               lights |-> IF "lights" \in DOMAIN y THEN y["lights"] ELSE ""])

\* State::from_v0: the same state as the V1 document with equivalent fields.
from_v0(y) == from_v1([k \in DOMAIN y \cup {"version"} |->
                          IF k = "version" THEN "1" ELSE y[k]])

\* State::new and Resources::new / Resources::init.
StateNew == [version |-> "1", lights |-> ""]
ResourcesNew(state) == [state |-> state, bridge_id |-> "", log |-> <<>>, a |-> 0, b |-> 0]
ResourcesInit(r, id) == [r EXCEPT !.bridge_id = id]

NoRes == [tag |-> "none"]

-----------------------------------------------------------------------------
(* Initial states *)

\* The caller of tls_config before its first call.
NoTls == [pc |-> "idle", path |-> <<>>, cert |-> None, out |-> None, last |-> None,
          held |-> 0]

\* The calls from_config made so far in this run.
Called(op) == \E i \in 1..Len(ops) : ops[i] = op

NoTask == [pc |-> "idle", h |-> 0, local |-> NoRes, failed |-> FALSE, waited |-> FALSE]

CertContents ==
    { File(CertBytes(hue_bridge_id(m)), TRUE) : m \in Macs }
        \cup { File(BadPem, TRUE) }
        \cup { File(CertBytes(hue_bridge_id(m)), FALSE) : m \in Macs }

StateContents == { File(d, TRUE) : d \in Docs } \cup { File(DocV1, FALSE), File(DocV0, FALSE) }

\* Any file system a first start can meet.
Disks(sf) ==
    LET opt(p, S) == { [q \in {} |-> None] } \cup { [q \in {p} |-> f] : f \in S }
        join(f, g) == [q \in DOMAIN f \cup DOMAIN g |-> IF q \in DOMAIN f THEN f[q] ELSE g[q]]
    IN  { join(c, join(s, b)) :
            c \in opt(CertFile, CertContents),
            s \in opt(sf, StateContents),
            b \in opt(with_extension(sf, V0Bak), {File(DocOld, TRUE)}) }

Init ==
    /\ \E m \in Macs, sf \in StateFiles :
          /\ config = [mac |-> m, cert_file |-> CertFile, state_file |-> sf]
          /\ files \in Disks(sf)
    /\ disk0 = files
    /\ run = 1
    /\ pc = "cert"
    /\ fd = None
    /\ yaml = None
    /\ res = NoRes
    /\ result = "pending"
    /\ handles = <<>>
    /\ mutexes = <<>>
    /\ tasks = [t \in 1..NumTasks |-> NoTask]
    /\ short = None
    /\ ops = <<>>
    /\ failedAt = "none"
    /\ certWrites = 0
    /\ prev = None
    /\ tls = NoTls

-----------------------------------------------------------------------------
(* certificate.rs, as from_config uses it *)

\* certificate::generate_and_save: write a new self-signed certificate for the
\* mac to the path, or fail on the write and leave the path as it was.
generate_and_save(fs, p, mac) ==
    { [ok |-> TRUE, wrote |-> TRUE,
       files |-> Put(fs, p, File(CertBytes(hue_bridge_id(mac)), TRUE))],
      [ok |-> FALSE, wrote |-> FALSE, files |-> fs] }

\* certificate::check_certificate: verify the identity of the existing file; a
\* certificate of another identity is regenerated.
check_certificate(fs, p, mac) ==
    IF ~fs[p].readable \/ CertIdentity(fs[p].bytes) = None
    THEN { [ok |-> FALSE, wrote |-> FALSE, files |-> fs] }
    ELSE IF CertIdentity(fs[p].bytes) = Some(hue_bridge_id(mac))
    THEN { [ok |-> TRUE, wrote |-> FALSE, files |-> fs] }
    ELSE generate_and_save(fs, p, mac)

-----------------------------------------------------------------------------
(* AppState::from_config *)

Call(op) == ops' = Append(ops, op)

\* The ? operator: the error is returned and every local is dropped.
Propagate(op) ==
    /\ pc' = "returned"
    /\ result' = "Err"
    /\ failedAt' = op
    /\ fd' = None
    /\ yaml' = None
    /\ res' = NoRes

\* Mutant: an existing certificate file is trusted without the check.
CertStepOutcomesNoCheck(fs, conf) ==
    IF is_file(fs, conf.cert_file)
    THEN [op : {"check_certificate"}, out : {[ok |-> TRUE, wrote |-> FALSE, files |-> fs]}]
    ELSE [op : {"generate_and_save"}, out : generate_and_save(fs, conf.cert_file, conf.mac)]

\* Mutant: the certificate is generated on every start, whatever the path holds.
CertStepOutcomesAlwaysGenerate(fs, conf) ==
    [op : {"generate_and_save"}, out : generate_and_save(fs, conf.cert_file, conf.mac)]

\* Lines 25-33: the certificate step.
CertStepOutcomes(fs, conf) ==
    IF is_file(fs, conf.cert_file)
    THEN [op : {"check_certificate"}, out : check_certificate(fs, conf.cert_file, conf.mac)]
    ELSE [op : {"generate_and_save"}, out : generate_and_save(fs, conf.cert_file, conf.mac)]

\* Mutant: the error of the certificate step is kept for later and the state
\* file is loaded first.
CertStepDeferError ==
    /\ pc = "cert"
    /\ \E o \in CertStepOutcomes(files, config) :
          /\ Call(o.op)
          /\ files' = o.out.files
          /\ pc' = "open"
          /\ failedAt' = IF o.out.ok THEN failedAt ELSE o.op
          /\ UNCHANGED <<fd, yaml, res, result>>
          /\ certWrites' = IF o.out.wrote THEN certWrites + 1 ELSE certWrites
    /\ UNCHANGED <<config, run, handles, mutexes, tasks, short, disk0, prev, tls>>

CertStep ==
    /\ pc = "cert"
    /\ \E o \in CertStepOutcomes(files, config) :
          /\ Call(o.op)
          /\ files' = o.out.files
          /\ IF o.out.ok
             THEN /\ pc' = "open"
                  /\ UNCHANGED <<fd, yaml, res, result, failedAt>>
             ELSE Propagate(o.op)
          /\ certWrites' = IF o.out.wrote THEN certWrites + 1 ELSE certWrites
    /\ UNCHANGED <<config, run, handles, mutexes, tasks, short, disk0, prev, tls>>

\* Line 37: File::open(&config.bifrost.state_file), Ok or not.
FileOpen(fs, p) ==
    IF is_file(fs, p) /\ fs[p].readable THEN Some(fs[p].bytes) ELSE None

OpenState ==
    /\ pc = "open"
    /\ Call("open")
    /\ fd' = FileOpen(files, config.state_file)
    /\ pc' = IF fd' # None THEN "read" ELSE "init"
    /\ UNCHANGED <<files, config, run, yaml, res, result, handles, mutexes, tasks,
                   short, failedAt, disk0, certWrites, prev, tls>>

\* Line 39: serde_yml::from_reader(fd)?
ReadYaml ==
    /\ pc = "read"
    /\ Call("from_reader")
    /\ IF from_reader(fd.val) # None
       THEN /\ yaml' = from_reader(fd.val)
            /\ fd' = None
            /\ pc' = "version"
            /\ UNCHANGED <<res, result, failedAt>>
       ELSE Propagate("from_reader")
    /\ UNCHANGED <<files, config, run, handles, mutexes, tasks, short, disk0>>
    /\ UNCHANGED <<certWrites, prev, tls>>

\* Mutant: a document whose version is not recognized is taken for V0.
DetectVersionDefaultV0 ==
    /\ pc = "version"
    /\ Call("version")
    /\ pc' = IF version(yaml.val) = Some("V1") THEN "from_v1" ELSE "rename"
    /\ UNCHANGED <<fd, yaml, res, result, failedAt>>
    /\ UNCHANGED <<files, config, run, handles, mutexes, tasks, short, disk0>>
    /\ UNCHANGED <<certWrites, prev, tls>>

\* Line 40: match State::version(&yaml)?
DetectVersion ==
    /\ pc = "version"
    /\ Call("version")
    /\ IF version(yaml.val) # None
       THEN /\ pc' = IF version(yaml.val).val = "V0" THEN "rename" ELSE "from_v1"
            /\ UNCHANGED <<fd, yaml, res, result, failedAt>>
       ELSE Propagate("version")
    /\ UNCHANGED <<files, config, run, handles, mutexes, tasks, short, disk0>>
    /\ UNCHANGED <<certWrites, prev, tls>>

\* Mutant: the suffix is appended to the whole file name.
backup_path_appended(conf) == conf.state_file \o V0Bak

\* Line 43: the backup path of the state file.
backup_path(conf) == with_extension(conf.state_file, V0Bak)

\* Mutant: the transform is reached without the backup having been made.
RenameBackupMissing ==
    /\ pc = "rename"
    /\ Call("rename")
    /\ pc' = "from_v0"
    /\ UNCHANGED <<files, fd, yaml, res, result, failedAt>>
    /\ UNCHANGED <<config, run, handles, mutexes, tasks, short, disk0>>
    /\ UNCHANGED <<certWrites, prev, tls>>

\* Mutant: the error of the rename is dropped and the transform runs anyway.
RenameBackupIgnoreError ==
    /\ pc = "rename"
    /\ Call("rename")
    /\ \E ok \in BOOLEAN :
          /\ files' = IF ok THEN Rename(files, config.state_file, backup_path(config))
                      ELSE files
          /\ failedAt' = IF ok THEN failedAt ELSE "rename"
          /\ pc' = "from_v0"
          /\ UNCHANGED <<fd, yaml, res, result>>
    /\ UNCHANGED <<config, run, handles, mutexes, tasks, short, disk0>>
    /\ UNCHANGED <<certWrites, prev, tls>>

\* Lines 43-44: fs::rename(&config.bifrost.state_file, backup_path)?
RenameBackup ==
    /\ pc = "rename"
    /\ Call("rename")
    /\ \E ok \in BOOLEAN :
          IF ok
          THEN /\ files' = Rename(files, config.state_file, backup_path(config))
               /\ pc' = "from_v0"
               /\ UNCHANGED <<fd, yaml, res, result, failedAt>>
          ELSE /\ files' = files
               /\ Propagate("rename")
    /\ UNCHANGED <<config, run, handles, mutexes, tasks, short, disk0>>
    /\ UNCHANGED <<certWrites, prev, tls>>

\* Mutant: the upgraded document is saved at the state path after the transform.
FromV0AndSave ==
    /\ pc = "from_v0"
    /\ Call("from_v0")
    /\ IF from_v0(yaml.val) # None
       THEN /\ res' = ResourcesNew(from_v0(yaml.val).val)
            /\ files' = Put(files, config.state_file,
                            File(<< <<"version", "1">>,
                                    <<"lights", from_v0(yaml.val).val.lights>> >>, TRUE))
            /\ yaml' = None
            /\ pc' = "wrap"
            /\ UNCHANGED <<fd, result, failedAt>>
       ELSE /\ Propagate("from_v0")
            /\ files' = files
    /\ UNCHANGED <<config, run, handles, mutexes, tasks, short, disk0>>
    /\ UNCHANGED <<certWrites, prev, tls>>

\* Lines 46 and 53: State::from_v0(yaml)?, then Resources::new(state).
FromV0 ==
    /\ pc = "from_v0"
    /\ Call("from_v0")
    /\ IF from_v0(yaml.val) # None
       THEN /\ res' = ResourcesNew(from_v0(yaml.val).val)
            /\ yaml' = None
            /\ pc' = "wrap"
            /\ UNCHANGED <<fd, result, failedAt>>
       ELSE Propagate("from_v0")
    /\ UNCHANGED <<files, config, run, handles, mutexes, tasks, short, disk0>>
    /\ UNCHANGED <<certWrites, prev, tls>>

\* Mutant: the V1 arm keeps a backup like the V0 arm.
FromV1WithBackup ==
    /\ pc = "from_v1"
    /\ Call("from_v1")
    /\ files' = Rename(files, config.state_file, backup_path(config))
    /\ IF from_v1(yaml.val) # None
       THEN /\ res' = ResourcesNew(from_v1(yaml.val).val)
            /\ yaml' = None
            /\ pc' = "wrap"
            /\ UNCHANGED <<fd, result, failedAt>>
       ELSE Propagate("from_v1")
    /\ UNCHANGED <<config, run, handles, mutexes, tasks, short, disk0>>
    /\ UNCHANGED <<certWrites, prev, tls>>

\* Lines 50 and 53: State::from_v1(yaml)?, then Resources::new(state).
FromV1 ==
    /\ pc = "from_v1"
    /\ Call("from_v1")
    /\ IF from_v1(yaml.val) # None
       THEN /\ res' = ResourcesNew(from_v1(yaml.val).val)
            /\ yaml' = None
            /\ pc' = "wrap"
            /\ UNCHANGED <<fd, result, failedAt>>
       ELSE Propagate("from_v1")
    /\ UNCHANGED <<files, config, run, handles, mutexes, tasks, short, disk0>>
    /\ UNCHANGED <<certWrites, prev, tls>>

\* Mutant: the result of res.init is dropped instead of propagated.
InitFreshIgnoreError ==
    /\ pc = "init"
    /\ Call("init")
    /\ \E ok \in BOOLEAN :
          /\ res' = IF ok
                    THEN ResourcesInit(ResourcesNew(StateNew), hue_bridge_id(config.mac))
                    ELSE ResourcesNew(StateNew)
          /\ failedAt' = IF ok THEN failedAt ELSE "init"
          /\ pc' = "wrap"
          /\ UNCHANGED <<fd, yaml, result>>
    /\ UNCHANGED <<files, config, run, handles, mutexes, tasks, short, disk0>>
    /\ UNCHANGED <<certWrites, prev, tls>>

\* Mutant: the fresh state is initialized with the identity of a default mac.
InitFreshPlaceholder ==
    /\ pc = "init"
    /\ Call("init")
    /\ \E ok \in BOOLEAN :
          IF ok
          THEN /\ res' = ResourcesInit(ResourcesNew(StateNew),
                                       hue_bridge_id(<<0, 0, 0, 0, 0, 0>>))
               /\ pc' = "wrap"
               /\ UNCHANGED <<fd, yaml, result, failedAt>>
          ELSE Propagate("init")
    /\ UNCHANGED <<files, config, run, handles, mutexes, tasks, short, disk0>>
    /\ UNCHANGED <<certWrites, prev, tls>>

\* Lines 56-57: Resources::new(State::new()), then res.init(&hue_bridge_id(mac))?
InitFresh ==
    /\ pc = "init"
    /\ Call("init")
    /\ \E ok \in BOOLEAN :
          IF ok
          THEN /\ res' = ResourcesInit(ResourcesNew(StateNew), hue_bridge_id(config.mac))
               /\ pc' = "wrap"
               /\ UNCHANGED <<fd, yaml, result, failedAt>>
          ELSE Propagate("init")
    /\ UNCHANGED <<files, config, run, handles, mutexes, tasks, short, disk0>>
    /\ UNCHANGED <<certWrites, prev, tls>>

\* tokio::sync::Mutex::new
MutexNew(data) == [data |-> data, holder |-> 0, waiters |-> <<>>]

\* Lines 60-63: Ok(Self { conf: Arc::new(config), res: Arc::new(Mutex::new(res)) })
Wrap ==
    /\ pc = "wrap"
    /\ mutexes' = <<MutexNew(res)>>
    /\ handles' = <<[conf |-> config, res |-> 1]>>
    /\ res' = NoRes
    /\ result' = "Ok"
    /\ pc' = "returned"
    /\ UNCHANGED <<files, config, run, fd, yaml, tasks, short, ops, failedAt, disk0>>
    /\ UNCHANGED <<certWrites, prev, tls>>

\* The process ends and is started again; the hardware identifier of the new
\* configuration may differ, the paths stay.
Restart ==
    /\ pc = "returned"
    /\ run < MaxRuns
    /\ \E m \in Macs : config' = [config EXCEPT !.mac = m]
    /\ run' = run + 1
    /\ pc' = "cert"
    /\ result' = "pending"
    /\ handles' = <<>>
    /\ mutexes' = <<>>
    /\ tasks' = [t \in 1..NumTasks |-> NoTask]
    /\ short' = None
    /\ ops' = <<>>
    /\ failedAt' = "none"
    /\ disk0' = files
    /\ certWrites' = 0
    /\ prev' = Some([mac |-> config.mac,
                     cert_ok |-> ops # <<>> /\ failedAt # ops[1],
                     wrote |-> certWrites > 0,
                     migrated |-> result = "Ok" /\ Called("from_v0"),
                     result |-> result])
    /\ tls' = NoTls
    /\ UNCHANGED <<files, fd, yaml, res>>

\* Mutant: the bridge id is the mac in hex, without the FFFE infix.
api_short_config_plain_mac(h) ==
    [bridgeid |-> HexByte(h.conf.mac[1]) \o HexByte(h.conf.mac[2]) \o HexByte(h.conf.mac[3])
                  \o HexByte(h.conf.mac[4]) \o HexByte(h.conf.mac[5]) \o HexByte(h.conf.mac[6]),
     mac |-> h.conf.mac]

\* Lines 81-88: AppState::api_short_config
api_short_config(h) ==
    [bridgeid |-> hue_bridge_id(h.conf.mac), mac |-> h.conf.mac]

ApiShortConfig ==
    /\ \E i \in DOMAIN handles : short' = Some(api_short_config(handles[i]))
    /\ UNCHANGED <<files, config, run, pc, fd, yaml, res, result, handles, mutexes,
                   tasks, ops, failedAt, disk0, certWrites, prev, tls>>

from_config ==
    \/ CertStep
    \/ OpenState
    \/ ReadYaml
    \/ DetectVersion
    \/ RenameBackup
    \/ FromV0
    \/ FromV1
    \/ InitFresh
    \/ Wrap

Next ==
    \/ from_config
    \/ Restart
    \/ ApiShortConfig

Spec == Init /\ [][Next]_vars

-----------------------------------------------------------------------------
(* The Handle in use: clones of AppState and the guard on res *)

\* Mutant: res is cloned by value, every clone getting a Mutex of its own.
CloneDeep ==
    /\ Len(handles) <= MaxClones
    /\ \E i \in DOMAIN handles :
          /\ handles' = Append(handles, [handles[i] EXCEPT !.res = Len(mutexes) + 1])
          /\ mutexes' = Append(mutexes, MutexNew(mutexes[handles[i].res].data))
    /\ UNCHANGED <<tasks, short>>
    /\ UNCHANGED <<bootVars, tls>>

\* Line 17, #[derive(Clone)]: both Arcs are cloned, so the clone refers to the
\* same AppConfig and the same Mutex<Resources>.
Clone ==
    /\ Len(handles) <= MaxClones
    /\ \E i \in DOMAIN handles : handles' = Append(handles, handles[i])
    /\ UNCHANGED <<mutexes, tasks, short>>
    /\ UNCHANGED <<bootVars, tls>>

MutexOf(t) == handles[tasks[t].h].res

\* A caller inside the scope of a guard it obtained from res.lock().await.
InScope == {"locked", "read", "wroteA", "wroteB", "exiting"}

\* Mutant: access to res is handed out without waiting for the holder.
LockNoWait(t) ==
    /\ tasks[t].pc = "idle"
    /\ \E i \in DOMAIN handles :
          /\ tasks' = [tasks EXCEPT ![t] = [@ EXCEPT !.h = i, !.pc = "locked"]]
          /\ mutexes' = [mutexes EXCEPT ![handles[i].res].holder = t]
    /\ UNCHANGED <<handles, short>>
    /\ UNCHANGED <<bootVars, tls>>

\* Line 20, res.lock().await on a tokio Mutex: the caller takes the lock when
\* it is free and nobody is queued, and otherwise queues behind the others.
Lock(t) ==
    /\ tasks[t].pc = "idle"
    /\ \E i \in DOMAIN handles :
          LET m == handles[i].res
              free == mutexes[m].holder = 0 /\ mutexes[m].waiters = <<>>
          IN  /\ tasks' = [tasks EXCEPT ![t] =
                     [@ EXCEPT !.h = i,
                               !.pc = IF free THEN "locked" ELSE "waiting",
                               !.waited = ~free]]
              /\ mutexes' = [mutexes EXCEPT ![m] =
                     IF free THEN [@ EXCEPT !.holder = t]
                     ELSE [@ EXCEPT !.waiters = Append(@, t)]]
    /\ UNCHANGED <<handles, short>>
    /\ UNCHANGED <<bootVars, tls>>

\* The queued caller is polled after the lock was handed to it.
Wake(t) ==
    /\ tasks[t].pc = "waiting"
    /\ mutexes[MutexOf(t)].holder = t
    /\ tasks' = [tasks EXCEPT ![t].pc = "locked"]
    /\ UNCHANGED <<handles, mutexes, short>>
    /\ UNCHANGED <<bootVars, tls>>

\* The holder reads the Resources through the guard.
Read(t) ==
    /\ tasks[t].pc = "locked"
    /\ tasks' = [tasks EXCEPT ![t].pc = "read", ![t].local = mutexes[MutexOf(t)].data]
    /\ UNCHANGED <<handles, mutexes, short>>
    /\ UNCHANGED <<bootVars, tls>>

\* The holder writes its update back, one field after the other.
WriteA(t) ==
    /\ tasks[t].pc = "read"
    /\ mutexes' = [mutexes EXCEPT ![MutexOf(t)].data.a = tasks[t].local.a + 1]
    /\ tasks' = [tasks EXCEPT ![t].pc = "wroteA"]
    /\ UNCHANGED <<handles, short>>
    /\ UNCHANGED <<bootVars, tls>>

WriteB(t) ==
    /\ tasks[t].pc = "wroteA"
    /\ mutexes' = [mutexes EXCEPT ![MutexOf(t)].data.b = tasks[t].local.b + 1,
                                  ![MutexOf(t)].data.log = Append(tasks[t].local.log, t)]
    /\ tasks' = [tasks EXCEPT ![t].pc = "wroteB"]
    /\ UNCHANGED <<handles, short>>
    /\ UNCHANGED <<bootVars, tls>>

\* The scoped operation fails before it wrote anything and leaves the scope early.
Abort(t) ==
    /\ tasks[t].pc \in {"locked", "read"}
    /\ tasks' = [tasks EXCEPT ![t].pc = "exiting", ![t].failed = TRUE]
    /\ UNCHANGED <<handles, mutexes, short>>
    /\ UNCHANGED <<bootVars, tls>>

\* Mutant: the lock is freed without being handed to the first queued caller.
UnlockNoHandOver(mx) == [mx EXCEPT !.holder = 0]

\* The guard is dropped at the end of the scope: the lock goes to the first
\* queued caller, or becomes free.
Unlock(mx) ==
    IF mx.waiters = <<>>
    THEN [mx EXCEPT !.holder = 0]
    ELSE [mx EXCEPT !.holder = Head(mx.waiters), !.waiters = Tail(mx.waiters)]

Release(t) ==
    /\ tasks[t].pc \in {"wroteB", "exiting"}
    /\ mutexes' = [mutexes EXCEPT ![MutexOf(t)] = Unlock(@)]
    /\ tasks' = [tasks EXCEPT ![t].pc = "done", ![t].local = NoRes]
    /\ UNCHANGED <<handles, short>>
    /\ UNCHANGED <<bootVars, tls>>

\* The Handle right after a construction that found neither file.
InitBuilt ==
    /\ \E m \in Macs :
          /\ config = [mac |-> m, cert_file |-> CertFile, state_file |-> <<"state", "yaml">>]
          /\ files = [q \in {CertFile} |-> File(CertBytes(hue_bridge_id(m)), TRUE)]
          /\ handles = <<[conf |-> config, res |-> 1]>>
          /\ mutexes = <<MutexNew(ResourcesInit(ResourcesNew(StateNew), hue_bridge_id(m)))>>
    /\ disk0 = <<>>
    /\ run = 1
    /\ pc = "returned"
    /\ fd = None
    /\ yaml = None
    /\ res = NoRes
    /\ result = "Ok"
    /\ tasks = [t \in 1..NumTasks |-> NoTask]
    /\ short = None
    /\ ops = <<"generate_and_save", "open", "init">>
    /\ failedAt = "none"
    /\ certWrites = 1
    /\ prev = None
    /\ tls = NoTls

Step(t) == Wake(t) \/ Read(t) \/ WriteA(t) \/ WriteB(t) \/ Release(t)

NextUse ==
    \/ Clone
    \/ \E t \in 1..NumTasks : Lock(t)
    \/ \E t \in 1..NumTasks : Wake(t)
    \/ \E t \in 1..NumTasks : Read(t)
    \/ \E t \in 1..NumTasks : WriteA(t)
    \/ \E t \in 1..NumTasks : WriteB(t)
    \/ \E t \in 1..NumTasks : Abort(t)
    \/ \E t \in 1..NumTasks : Release(t)

\* Every caller that can take a step eventually takes one: the scheduler is
\* fair and every holder leaves its scope.
LockSpec == InitBuilt /\ [][NextUse]_vars /\ \A t \in 1..NumTasks : WF_vars(Step(t))

-----------------------------------------------------------------------------
(* AppState::tls_config *)

TlsOk(cert, key) == [tag |-> "Ok", cert |-> cert, key |-> key]
\* Line 72: ApiError::Certificate(certfile.to_owned(), e)
TlsErr(path) == [tag |-> "Err", kind |-> "Certificate", path |-> path]

\* Reading a whole file: its bytes, or None when it is absent or unreadable.
ReadFile(fs, p) == FileOpen(fs, p)

\* The rustls configuration made of the certificate and key read from the PEM.
config_from_pem(path, cert, key) ==
    IF CertIdentity(cert) # None /\ CertIdentity(key) # None
    THEN TlsOk(cert, key) ELSE TlsErr(path)

\* Mutant: tls_config takes part in the locking of res.
TlsStartUnderLock ==
    /\ tls.pc = "idle"
    /\ \E i \in DOMAIN handles :
          /\ mutexes[handles[i].res].holder = 0
          /\ tls' = [tls EXCEPT !.pc = "cert", !.path = handles[i].conf.cert_file,
                                !.last = tls.out, !.out = None, !.held = 0]
    /\ UNCHANGED <<handles, mutexes, tasks, short>>
    /\ UNCHANGED bootVars

\* Mutant: a failed call leaves the Handle refusing further calls.
TlsStartPoisoned ==
    /\ tls.pc = "idle"
    /\ tls.out.tag # "Err"
    /\ \E i \in DOMAIN handles :
          tls' = [tls EXCEPT !.pc = "cert", !.path = handles[i].conf.cert_file,
                             !.last = tls.out, !.out = None,
                             !.held = mutexes[handles[i].res].holder]
    /\ UNCHANGED <<handles, mutexes, tasks, short>>
    /\ UNCHANGED bootVars

\* Lines 66-69: the call starts with the certificate path of the configuration.
TlsStart ==
    /\ tls.pc = "idle"
    /\ \E i \in DOMAIN handles :
          tls' = [tls EXCEPT !.pc = "cert", !.path = handles[i].conf.cert_file,
                             !.last = tls.out, !.out = None,
                             !.held = mutexes[handles[i].res].holder]
    /\ UNCHANGED <<handles, mutexes, tasks, short>>
    /\ UNCHANGED bootVars

\* Line 70, first argument: the file is read as the certificate chain.
TlsReadCert ==
    /\ tls.pc = "cert"
    /\ tls' = IF ReadFile(files, tls.path) # None
              THEN [tls EXCEPT !.pc = "key", !.cert = ReadFile(files, tls.path)]
              ELSE [tls EXCEPT !.pc = "idle", !.out = TlsErr(tls.path)]
    /\ UNCHANGED <<handles, mutexes, tasks, short>>
    /\ UNCHANGED bootVars

\* Mutant: the material of the last successful call is kept and returned.
TlsReadKeyCached ==
    /\ tls.pc = "key"
    /\ tls' = [tls EXCEPT !.pc = "idle", !.cert = None,
                  !.out = IF tls.last.tag = "Ok" THEN tls.last
                          ELSE IF ReadFile(files, tls.path) # None
                          THEN config_from_pem(tls.path, tls.cert.val,
                                               ReadFile(files, tls.path).val)
                          ELSE TlsErr(tls.path)]
    /\ UNCHANGED <<handles, mutexes, tasks, short>>
    /\ UNCHANGED bootVars

\* Lines 70-72, second argument: the same file is read as the private key, the
\* configuration is built, and an error is mapped to ApiError::Certificate.
TlsReadKey ==
    /\ tls.pc = "key"
    /\ tls' = [tls EXCEPT !.pc = "idle", !.cert = None,
                  !.out = IF ReadFile(files, tls.path) # None
                          THEN config_from_pem(tls.path, tls.cert.val,
                                               ReadFile(files, tls.path).val)
                          ELSE TlsErr(tls.path)]
    /\ UNCHANGED <<handles, mutexes, tasks, short>>
    /\ UNCHANGED bootVars

\* The certificate file is replaced from outside the process: by another
\* certificate, by something that is no PEM, or by a file it cannot read.
ReplaceCert ==
    /\ pc = "returned" /\ result = "Ok"
    /\ \E f \in CertContents :
          /\ f.readable \/ f.bytes = CertBytes(hue_bridge_id(config.mac))
          /\ files' = Put(files, config.cert_file, f)
    /\ UNCHANGED <<config, run, pc, fd, yaml, res, result, ops, failedAt, disk0,
                   certWrites, prev>>
    /\ UNCHANGED <<handles, mutexes, tasks, short, tls>>

\* The certificate file is removed from outside the process.
RemoveCert ==
    /\ pc = "returned" /\ result = "Ok"
    /\ config.cert_file \in DOMAIN files
    /\ files' = [q \in DOMAIN files \ {config.cert_file} |-> files[q]]
    /\ UNCHANGED <<config, run, pc, fd, yaml, res, result, ops, failedAt, disk0,
                   certWrites, prev>>
    /\ UNCHANGED <<handles, mutexes, tasks, short, tls>>

NextTls ==
    \/ TlsStart
    \/ TlsReadCert
    \/ TlsReadKey
    \/ ReplaceCert
    \/ RemoveCert
    \/ \E t \in 1..NumTasks : Lock(t)
    \/ \E t \in 1..NumTasks : Wake(t)
    \/ \E t \in 1..NumTasks : Read(t)
    \/ \E t \in 1..NumTasks : WriteA(t)
    \/ \E t \in 1..NumTasks : WriteB(t)
    \/ \E t \in 1..NumTasks : Release(t)

\* The built Handle serving TLS while callers use the state and the
\* certificate file changes on disk.
TlsSpec == InitBuilt /\ [][NextTls]_vars

-----------------------------------------------------------------------------
(* Properties of from_config *)

Before(op1, op2) ==
    \E i, j \in 1..Len(ops) : i < j /\ ops[i] = op1 /\ ops[j] = op2

Identity == hue_bridge_id(config.mac)
StatePath == config.state_file
BackupPath == backup_path(config)
Unchanged(p) ==
    IF p \in DOMAIN disk0 THEN p \in DOMAIN files /\ files[p] = disk0[p]
    ELSE p \notin DOMAIN files

\* C1: from_config returns a fully built Handle or an error and no Handle. A
\* failed certificate step, parse, version detection, rename, transform or
\* init ends the construction there with Err; no AppState and no Mutex exist
\* unless the construction returned Ok, and then they are the complete ones.
C1_AllOrNothing ==
    /\ failedAt # "none" =>
          /\ pc = "returned" /\ result = "Err"
          /\ handles = <<>> /\ mutexes = <<>>
          /\ ops[Len(ops)] = failedAt
    /\ result # "Ok" => handles = <<>> /\ mutexes = <<>>
    /\ result = "Ok" =>
          /\ pc = "returned" /\ failedAt = "none"
          /\ Len(handles) >= 1 /\ Len(mutexes) = 1
          /\ \A i \in DOMAIN handles : handles[i] = [conf |-> config, res |-> 1]
          /\ mutexes[1].data # NoRes
          /\ "state" \in DOMAIN mutexes[1].data
    /\ pc = "returned" => result \in {"Ok", "Err"}
    /\ result = "Err" => failedAt # "none"

C1_Witness ==
    /\ failedAt = "from_v0" /\ result = "Err" /\ handles = <<>>
    /\ BackupPath \in DOMAIN files

\* C2: after every construction that succeeds, whatever the certificate path
\* held before and whatever the hardware identifier of earlier runs was, the
\* certificate file exists and embeds the identity of this run's identifier.
C2_NoStaleIdentity ==
    result = "Ok" =>
        /\ is_file(files, config.cert_file)
        /\ CertIdentity(files[config.cert_file].bytes) = Some(Identity)

C2_Witness ==
    /\ run = 2 /\ result = "Ok"
    /\ config.cert_file \in DOMAIN disk0
    /\ CertIdentity(disk0[config.cert_file].bytes) \notin {None, Some(Identity)}
    /\ Called("check_certificate")

\* C3: the rename to the backup path comes before the V0 -> V1 transform:
\* from the moment the transform is about to run, and after from_config has
\* returned whether the transform succeeded or failed, the backup file holds
\* exactly the bytes the state file had.
C3_BackupBeforeTransform ==
    (pc = "from_v0" \/ Called("from_v0")) =>
        /\ StatePath \in DOMAIN disk0
        /\ from_reader(disk0[StatePath].bytes) # None
        /\ version(from_reader(disk0[StatePath].bytes).val) = Some("V0")
        /\ BackupPath \in DOMAIN files
        /\ files[BackupPath] = disk0[StatePath]
        /\ Called("rename")
        /\ Called("from_v0") => Before("rename", "from_v0")

C3_Witness ==
    /\ pc = "returned" /\ failedAt = "from_v0"
    /\ files[BackupPath].bytes = DocV0Bad
    /\ BackupPath \in DOMAIN disk0 /\ disk0[BackupPath].bytes = DocOld

\* C4: a state file that exists but cannot be opened makes from_config
\* return an error, never a Handle.
C4_UnreadableStateFails ==
    (pc = "returned" /\ StatePath \in DOMAIN disk0 /\ ~disk0[StatePath].readable)
        => result = "Err"

\* C8: when the backup rename fails, from_config returns an error, the
\* transform has not run, there is no Handle, and the state file is still at
\* its path with its bytes.
C8_RenameFailureAborts ==
    (failedAt = "rename" \/ (Called("rename") /\ BackupPath \notin DOMAIN files)) =>
        /\ pc = "returned" /\ result = "Err" /\ failedAt = "rename"
        /\ ~Called("from_v0")
        /\ handles = <<>> /\ mutexes = <<>>
        /\ Unchanged(StatePath)
        /\ StatePath \in DOMAIN files

C8_Witness ==
    /\ failedAt = "rename" /\ pc = "returned"
    /\ files[StatePath].bytes = DocV0

\* C9: with no state file at the state path, from_config takes neither the V0
\* nor the V1 branch (nothing is read, renamed or backed up) and the state it
\* returns is the empty state initialized with the identity of this run's
\* hardware identifier.
C9_FreshStateFromCurrentIdentity ==
    StatePath \notin DOMAIN disk0 =>
        /\ ~Called("from_reader") /\ ~Called("version") /\ ~Called("rename")
        /\ ~Called("from_v0") /\ ~Called("from_v1")
        /\ Unchanged(BackupPath) /\ Unchanged(StatePath)
        /\ result = "Ok" =>
              /\ ops[Len(ops)] = "init"
              /\ mutexes[1].data = ResourcesInit(ResourcesNew(StateNew), Identity)

C9_Witness ==
    /\ run = 2 /\ result = "Ok" /\ StatePath \notin DOMAIN disk0
    /\ config.cert_file \in DOMAIN disk0
    /\ CertIdentity(disk0[config.cert_file].bytes) \notin {None, Some(Identity)}
    /\ mutexes[1].data.bridge_id = Identity

BothAbsent == StatePath \notin DOMAIN disk0 /\ config.cert_file \notin DOMAIN disk0

IdentityConsistent ==
    /\ is_file(files, config.cert_file)
    /\ CertIdentity(files[config.cert_file].bytes) = Some(Identity)
    /\ mutexes[1].data.bridge_id = Identity
    /\ short # None => short.val.bridgeid = Identity /\ short.val.mac = config.mac

\* C10 as stated: a construction that starts with the certificate file and
\* the state file absent succeeds, and the certificate identity, the identity
\* of the fresh state and the bridge id of the short descriptor all equal the
\* identity of the configured hardware identifier.
C10_AlwaysSucceeds ==
    (BothAbsent /\ pc = "returned") => (result = "Ok" /\ IdentityConsistent)

\* C10 amended: such a construction fails only with the error of
\* generate_and_save or of Resources::init; when it succeeds the certificate
\* file exists and the three identities are equal to the identity of the
\* configured hardware identifier.
C10_EndToEndIdentity ==
    (BothAbsent /\ pc = "returned") =>
        /\ result = "Ok" \/ failedAt \in {"generate_and_save", "init"}
        /\ result = "Ok" => IdentityConsistent

C10_Witness ==
    /\ BothAbsent /\ result = "Ok" /\ short # None /\ IdentityConsistent
    /\ ops = <<"generate_and_save", "open", "init">>

-----------------------------------------------------------------------------
(* Properties of the guard on SharedState *)

Tasks == 1..NumTasks
Holders == { t \in Tasks : tasks[t].pc \in InScope }
Finished == \A t \in Tasks : tasks[t].pc = "done"
Applied == { t \in Tasks : tasks[t].pc \in {"wroteB", "done"} /\ ~tasks[t].failed }
SharedState == mutexes[1].data

\* C5: at most one caller is inside the scope of a guard on SharedState at
\* any moment, counting the callers of every clone of the Handle: all clones
\* refer to the one Mutex that from_config created.
C5_MutualExclusion ==
    /\ Cardinality(Holders) <= 1
    /\ Len(mutexes) = 1
    /\ \A i \in DOMAIN handles : handles[i].res = 1
    /\ \A t \in Holders : mutexes[1].holder = t

C5_Witness ==
    \E t, u \in Tasks :
        /\ tasks[t].pc = "wroteA" /\ tasks[u].pc = "waiting"
        /\ tasks[t].h # tasks[u].h

\* C6: when every caller has acquired the guard, applied its
\* read-modify-write and released, SharedState is the result of applying the
\* mutations one after another in some order: each applied update is there
\* exactly once, and no caller ever read a half-written state.
C6_Serialized ==
    /\ \A t \in Tasks : tasks[t].pc = "read" => tasks[t].local.a = tasks[t].local.b
    /\ Finished =>
          /\ { SharedState.log[i] : i \in 1..Len(SharedState.log) } = Applied
          /\ Len(SharedState.log) = Cardinality(Applied)
          /\ SharedState.a = Cardinality(Applied)
          /\ SharedState.b = Cardinality(Applied)

C6_Witness ==
    /\ Finished
    /\ Len(SharedState.log) = NumTasks
    /\ \E t, u \in Tasks : tasks[t].waited /\ tasks[t].h # tasks[u].h

\* C7: the guard is released on scope exit whether the operation succeeded
\* or failed (a caller outside a scope never owns the lock), and under a fair
\* scheduler every caller waiting for the guard eventually holds it.
C7_ReleasedAndLive ==
    /\ [](\A t \in Tasks : tasks[t].pc \in {"idle", "done"} =>
             \A m \in DOMAIN mutexes :
                 /\ mutexes[m].holder # t
                 /\ \A i \in 1..Len(mutexes[m].waiters) : mutexes[m].waiters[i] # t)
    /\ \A t \in Tasks : (tasks[t].pc = "waiting") ~> (tasks[t].pc = "locked")

C7_Witness ==
    \E t, u \in Tasks :
        /\ tasks[u].pc = "done" /\ tasks[u].failed
        /\ tasks[t].pc = "locked" /\ tasks[t].waited

-----------------------------------------------------------------------------
(* Properties of from_config, continued *)

CertPath == config.cert_file
SameIdentifierAgain ==
    prev # None /\ prev.val.cert_ok /\ prev.val.mac = config.mac

\* C11: when a construction follows one whose certificate step succeeded
\* with the same certificate path and the same hardware identifier, the
\* certificate carries the identity of that identifier after both, and the
\* second construction writes nothing to the certificate file: its bytes
\* stay those the first one left.
C11_CertificateStepIdempotent ==
    SameIdentifierAgain =>
        /\ CertPath \in DOMAIN disk0
        /\ CertIdentity(disk0[CertPath].bytes) = Some(Identity)
        /\ certWrites = 0
        /\ Unchanged(CertPath)
        /\ pc # "cert" => ops[1] = "check_certificate" /\ failedAt # "check_certificate"

C11_Witness ==
    /\ SameIdentifierAgain /\ prev.val.wrote
    /\ pc = "returned" /\ result = "Ok" /\ certWrites = 0

-----------------------------------------------------------------------------
(* Properties of tls_config *)

TlsCompletes == tls.pc # "idle" /\ tls'.pc = "idle"
ValidPem(fs, p) == ReadFile(fs, p) # None /\ CertIdentity(ReadFile(fs, p).val) # None
GuardHeld == \E t \in 1..NumTasks : tasks[t].pc \in InScope

\* C12: tls_config keeps no copy of the certificate: every call reads the
\* file at the configured path anew, as the certificate and again as the key,
\* and the material it returns is what those reads found; a file replaced
\* between two calls is what the later call returns.
C12_NoCaching ==
    [][ /\ (tls.pc = "cert" /\ tls'.pc = "key") =>
              tls'.cert = Some(files[config.cert_file].bytes)
        /\ (TlsCompletes /\ tls'.out.tag = "Ok") =>
              /\ tls.pc = "key"
              /\ tls'.out = TlsOk(tls.cert.val, files[config.cert_file].bytes)
        /\ (TlsCompletes /\ ~ValidPem(files, config.cert_file)) =>
              tls'.out.tag = "Err"
      ]_vars

C12_Witness ==
    /\ tls.pc = "idle" /\ tls.last.tag = "Ok" /\ tls.out.tag = "Ok"
    /\ tls.out # tls.last
    /\ tls.out = TlsOk(files[config.cert_file].bytes, files[config.cert_file].bytes)
    /\ run = 1

\* C13: tls_config never takes the guard on SharedState: each of its steps
\* can be taken whoever holds the guard and changes neither the lock nor any
\* caller of the lock, and the holder's next step is enabled while a
\* tls_config call is in progress.
C13_IndependentOfLock ==
    /\ [](/\ (handles # <<>> /\ tls.pc = "idle") => ENABLED TlsStart
          /\ tls.pc = "cert" => ENABLED TlsReadCert
          /\ tls.pc = "key" => ENABLED TlsReadKey
          /\ \A t \in 1..NumTasks :
                /\ tasks[t].pc = "locked" => ENABLED Read(t)
                /\ tasks[t].pc = "read" => ENABLED WriteA(t)
                /\ tasks[t].pc = "wroteA" => ENABLED WriteB(t)
                /\ tasks[t].pc = "wroteB" => ENABLED Release(t))
    /\ [][tls' # tls => mutexes' = mutexes /\ tasks' = tasks]_vars

C13_Witness ==
    /\ tls.pc = "idle" /\ tls.out.tag = "Ok"
    /\ tls.held # 0
    /\ tasks[tls.held].pc = "wroteA"
    /\ \E t \in 1..NumTasks : tasks[t].pc = "waiting"

\* C14: a tls_config call that fails returns ApiError::Certificate with the
\* path to its caller and changes nothing else: the Handle, SharedState, the
\* configuration and the callers of the lock are as before, a new call can be
\* made, and a call made when the file is valid again returns Ok.
C14_FailureIsLocal ==
    /\ [][ /\ (TlsCompletes /\ tls'.out.tag = "Err") =>
                 /\ tls'.out = TlsErr(config.cert_file)
                 /\ handles' = handles /\ mutexes' = mutexes /\ tasks' = tasks
                 /\ config' = config /\ files' = files
           /\ (TlsCompletes /\ tls.pc = "key" /\ CertIdentity(tls.cert.val) # None
                 /\ ValidPem(files, config.cert_file)) => tls'.out.tag = "Ok"
         ]_vars
    /\ []((tls.pc = "idle" /\ tls.out.tag = "Err") =>
             /\ ENABLED TlsStart
             /\ handles # <<>>
             /\ \A t \in 1..NumTasks : tasks[t].pc = "idle" => ENABLED Lock(t))

C14_Witness ==
    /\ tls.pc = "idle" /\ tls.last.tag = "Err" /\ tls.out.tag = "Ok"
    /\ GuardHeld

-----------------------------------------------------------------------------
(* Properties of the state load *)

Parsed0 == from_reader(disk0[StatePath].bytes)
RenameDone == pc = "from_v0" \/ Called("from_v0")
FreshResources == ResourcesInit(ResourcesNew(StateNew), Identity)

\* C15 as stated: the backup of a migrated V0 state file is at the file's
\* full name with .v0.bak appended, whatever the name.
C15_BackupAppendsSuffix ==
    RenameDone =>
        /\ (StatePath \o V0Bak) \in DOMAIN files
        /\ files[StatePath \o V0Bak] = disk0[StatePath]

\* The name of the state file without its last extension.
Stem == IF Len(StatePath) > 1 THEN SubSeq(StatePath, 1, Len(StatePath) - 1) ELSE StatePath

\* C15 amended: the backup is at the state file's name with its last
\* extension replaced by v0.bak (state.yaml gives state.v0.bak); only for a
\* name without extension is that the full name with .v0.bak appended. No
\* other path gets a file.
C15_BackupReplacesExtension ==
    RenameDone =>
        /\ (Stem \o V0Bak) \in DOMAIN files
        /\ files[Stem \o V0Bak] = disk0[StatePath]
        /\ StatePath \notin DOMAIN files
        /\ DOMAIN files \subseteq (DOMAIN disk0 \cup {Stem \o V0Bak, CertPath})
        /\ Len(StatePath) = 1 => Stem \o V0Bak = StatePath \o V0Bak

C15_Witness ==
    /\ RenameDone /\ result = "Ok"
    /\ StatePath = <<"state", "v1", "yaml">>
    /\ files[<<"state", "v1", "v0", "bak">>].bytes = DocV0

V1OnDisk ==
    /\ StatePath \in DOMAIN disk0
    /\ Parsed0 # None
    /\ version(Parsed0.val) = Some("V1")

\* C16: a V1 state file is deserialized directly: nothing is renamed, no
\* backup file appears, and the state file is at its path with the same bytes
\* at every moment up to and after the return of from_config.
C16_V1LoadedInPlace ==
    V1OnDisk =>
        /\ ~Called("rename") /\ ~Called("from_v0")
        /\ pc \notin {"rename", "from_v0"}
        /\ Unchanged(StatePath) /\ Unchanged(BackupPath)
        /\ (Called("version") /\ pc # "from_v1") => Called("from_v1")
        /\ (Called("from_v1") /\ result = "Ok") =>
              mutexes[1].data = ResourcesNew(from_v1(Parsed0.val).val)

C16_Witness ==
    /\ V1OnDisk /\ result = "Ok" /\ Called("from_v1")
    /\ BackupPath \in DOMAIN files /\ files[BackupPath].bytes = DocOld
    /\ mutexes[1].data.state.lights = "b"

CertStepCalls == {"check_certificate", "generate_and_save"}

\* C17: the state file is opened only after the certificate step has
\* returned Ok, and when the certificate step fails nothing else is called:
\* the state file is not opened or renamed and no backup file is created.
C17_CertificateFirst ==
    /\ pc = "cert" => ops = <<>>
    /\ ops # <<>> => ops[1] \in CertStepCalls
    /\ \A i \in 1..Len(ops) : ops[i] \in CertStepCalls => i = 1
    /\ Called("open") =>
          /\ failedAt \notin CertStepCalls
          /\ CertPath \in DOMAIN files
          /\ CertIdentity(files[CertPath].bytes) = Some(Identity)
    /\ failedAt \in CertStepCalls =>
          /\ pc = "returned" /\ result = "Err"
          /\ Len(ops) = 1
          /\ fd = None
          /\ Unchanged(StatePath) /\ Unchanged(BackupPath)

C17_Witness ==
    /\ failedAt = "check_certificate" /\ pc = "returned"
    /\ StatePath \in DOMAIN files /\ files[StatePath] = File(DocV0, TRUE)
    /\ BackupPath \notin DOMAIN files

Undecodable ==
    /\ StatePath \in DOMAIN disk0
    /\ disk0[StatePath].readable
    /\ \/ Parsed0 = None
       \/ version(Parsed0.val) = None

\* C18: a state file that is read but cannot be parsed, or whose version
\* cannot be determined, makes from_config fail before any rename: the state
\* file stays at its path with its bytes and no backup file is created.
C18_UndecodableFailsBeforeRename ==
    /\ failedAt \in {"from_reader", "version"} =>
          /\ pc = "returned" /\ result = "Err" /\ handles = <<>>
          /\ Undecodable
    /\ Undecodable =>
          /\ ~Called("rename") /\ ~Called("from_v0") /\ ~Called("from_v1")
          /\ ~Called("init")
          /\ pc \notin {"rename", "from_v0", "from_v1", "init", "wrap"}
          /\ result # "Ok"
          /\ StatePath \in DOMAIN files
          /\ Unchanged(StatePath) /\ Unchanged(BackupPath)

C18_Witness ==
    /\ failedAt = "version" /\ pc = "returned"
    /\ files[StatePath].bytes = DocV9
    /\ BackupPath \in DOMAIN files /\ files[BackupPath].bytes = DocOld

\* C19: from_config never writes the state path. After a successful V0
\* migration no file is at the state path (the upgraded state is in memory,
\* the original under the backup name), and a construction run next, nothing
\* having saved the state, finds no state file and returns a freshly
\* initialized state, not the migrated one.
C19_StatePathNeverWritten ==
    /\ StatePath \in DOMAIN files =>
          StatePath \in DOMAIN disk0 /\ files[StatePath] = disk0[StatePath]
    /\ (Called("from_v0") /\ result = "Ok") =>
          /\ StatePath \notin DOMAIN files
          /\ mutexes[1].data = ResourcesNew(from_v0(Parsed0.val).val)
    /\ (prev # None /\ prev.val.migrated) =>
          /\ StatePath \notin DOMAIN disk0
          /\ ~Called("from_reader") /\ ~Called("from_v0") /\ ~Called("from_v1")
          /\ result = "Ok" => mutexes[1].data = FreshResources

C19_Witness ==
    /\ prev # None /\ prev.val.migrated
    /\ result = "Ok"
    /\ mutexes[1].data.state.lights = ""
    /\ files[BackupPath].bytes = DocV0

====
